---- MODULE Spec2Model ----
(***************************************************************************)
(* Model of clap_derive/src/utils/ty.rs: the classification of a field's   *)
(* syn::Type into a Ty shape and the extraction of its inner type.         *)
(*                                                                         *)
(* A syn::Type is a record                                                 *)
(*   [kind, qself, leading_colon, segments, elems]                         *)
(* kind "Group" (Type::Group, elems = <<elem>>), "Tuple" (Type::Tuple,     *)
(* elems = the tuple's elements), "Paren" (Type::Paren, elems = <<elem>>), *)
(* "Path" (Type::Path: qself is TRUE for Some(_), leading_colon is TRUE    *)
(* for Some(_), segments is the punctuated list of PathSegment).           *)
(* A PathSegment is [ident, arguments, args]: arguments is the variant of  *)
(* PathArguments ("None", "AngleBracketed", "Parenthesized") and args the  *)
(* list of GenericArgument, each [kind, ty] with kind "Type", "Lifetime"   *)
(* or "Const" and ty = <<t>> for a type argument.                          *)
(* Option<T> values are sequences: None is << >>, Some(x) is <<x>>.        *)
(* The span carried by Sp<Ty> is not modelled.                             *)
(***************************************************************************)
EXTENDS Naturals, Sequences, FiniteSets

\* Nesting depth of the generated type expressions (wrappers and groups).
MaxDepth == 3

VARIABLES unstable_v5, field_ty, name, pc, op, cur, steps, shape, out, flag

vars == <<unstable_v5, field_ty, name, pc, op, cur, steps, shape, out, flag>>

----------------------------------------------------------------------------
\* Option<T>

None == << >>

Some(x) == <<x>>

is_some(o) == Len(o) = 1

unwrap_or(o, default) == IF is_some(o) THEN o[1] ELSE default

----------------------------------------------------------------------------
\* syn syntax tree

Ty == {"Unit", "Vec", "VecVec", "Option", "OptionOption", "OptionVec",
       "OptionVecVec", "Other"}

GenericArgumentType(t) == [kind |-> "Type", ty |-> <<t>>]

GenericArgumentLifetime == [kind |-> "Lifetime", ty |-> << >>]

GenericArgumentConst == [kind |-> "Const", ty |-> << >>]

PathSegment(ident, arguments, args) ==
    [ident |-> ident, arguments |-> arguments, args |-> args]

TypePath(qself, leading_colon, segments) ==
    [kind |-> "Path", qself |-> qself, leading_colon |-> leading_colon,
     segments |-> segments, elems |-> << >>]

TypeGroup(elem) ==
    [kind |-> "Group", qself |-> FALSE, leading_colon |-> FALSE,
     segments |-> << >>, elems |-> <<elem>>]

TypeParen(elem) ==
    [kind |-> "Paren", qself |-> FALSE, leading_colon |-> FALSE,
     segments |-> << >>, elems |-> <<elem>>]

TypeTuple(elems) ==
    [kind |-> "Tuple", qself |-> FALSE, leading_colon |-> FALSE,
     segments |-> << >>, elems |-> elems]

\* `Foo`
Bare(ident) == TypePath(FALSE, FALSE, <<PathSegment(ident, "None", << >>)>>)

\* `Foo<T>`
Generic(ident, t) ==
    TypePath(FALSE, FALSE,
             <<PathSegment(ident, "AngleBracketed", <<GenericArgumentType(t)>>)>>)

----------------------------------------------------------------------------
\* The functions of ty.rs

\* Mutant of only_one: the first item, whatever follows it
only_one_first(iter) ==
    IF Len(iter) = 0 THEN None ELSE Some(Head(iter))

\* iter.next().filter(|_| iter.next().is_none())
only_one(iter) ==
    IF Len(iter) = 0 THEN None
    ELSE IF Len(Tail(iter)) = 0 THEN Some(Head(iter)) ELSE None

\* Mutant of is_unit_ty: any tuple
is_unit_ty_any_tuple(ty) == ty.kind = "Tuple"

is_unit_ty(ty) ==
    IF ty.kind = "Tuple" THEN Len(ty.elems) = 0 ELSE FALSE

\* Mutant of strip_group: two grouping nodes removed in one iteration
strip_group_twice(ty) ==
    IF ty.elems[1].kind = "Group" THEN ty.elems[1].elems[1] ELSE ty.elems[1]

\* The body of the `while let Type::Group` loop: ty = elem
strip_group(ty) == ty.elems[1]

RECURSIVE strip_groups(_)
strip_groups(ty) ==
    IF ty.kind = "Group" THEN strip_groups(strip_group(ty)) ELSE ty

\* The match that follows the loop of only_last_segment
match_path(ty) ==
    IF ty.kind = "Path" /\ ~ty.qself /\ ~ty.leading_colon
    THEN only_one(ty.segments)
    ELSE None

only_last_segment(ty) == match_path(strip_groups(ty))

\* The closure subty_if gives to and_then
segment_arg(segment) ==
    IF segment.arguments = "AngleBracketed"
    THEN LET one == only_one(segment.args)
         IN  IF is_some(one) /\ one[1].kind = "Type"
             THEN Some(one[1].ty[1])
             ELSE None
    ELSE None

\* The closures given to subty_if: |_| true and |seg| seg.ident == name
any_segment == [named |-> FALSE, ident |-> ""]

segment_named(n) == [named |-> TRUE, ident |-> n]

call_f(f, segment) == IF f.named THEN segment.ident = f.ident ELSE TRUE

subty_if(ty, f) ==
    LET seg == only_last_segment(ty)
        kept == IF is_some(seg) /\ call_f(f, seg[1]) THEN seg ELSE None
    IN  IF is_some(kept) THEN segment_arg(kept[1]) ELSE None

\* Mutant of sub_type: only a segment named Vec is unwrapped
sub_type_vec_only(ty) == subty_if(ty, segment_named("Vec"))

sub_type(ty) == subty_if(ty, any_segment)

\* .and_then(sub_type)
and_then_sub_type(o) == IF is_some(o) THEN sub_type(o[1]) ELSE None

subty_if_name(ty, n) == subty_if(ty, segment_named(n))

\* Mutant of is_simple_ty: the segment's arguments are not looked at
is_simple_ty_any_arguments(ty, n) ==
    LET seg == only_last_segment(ty)
    IN  IF is_some(seg) THEN seg[1].ident = n ELSE FALSE

is_simple_ty(ty, n) ==
    LET seg == only_last_segment(ty)
    IN  IF is_some(seg)
        THEN IF seg[1].arguments = "None" THEN seg[1].ident = n ELSE FALSE
        ELSE FALSE

is_generic_ty(ty, n) == is_some(subty_if_name(ty, n))

\* Mutant of get_vec_ty_unstable_v5: the inner test asks for the wrong name
get_vec_ty_inner_option(ty, vec_ty, vecvec_ty) ==
    LET subty == subty_if_name(ty, "Vec")
    IN  IF is_some(subty)
        THEN Some(IF is_generic_ty(subty[1], "Option") THEN vecvec_ty ELSE vec_ty)
        ELSE None

\* #[cfg(feature = "unstable-v5")]
get_vec_ty_unstable_v5(ty, vec_ty, vecvec_ty) ==
    LET subty == subty_if_name(ty, "Vec")
    IN  IF is_some(subty)
        THEN Some(IF is_generic_ty(subty[1], "Vec") THEN vecvec_ty ELSE vec_ty)
        ELSE None

\* Mutant of get_vec_ty_not_unstable_v5: the wrong shape is handed back
get_vec_ty_returns_vecvec(ty, vec_ty, vecvec_ty) ==
    IF is_generic_ty(ty, "Vec") THEN Some(vecvec_ty) ELSE None

\* #[cfg(not(feature = "unstable-v5"))]
get_vec_ty_not_unstable_v5(ty, vec_ty, vecvec_ty) ==
    IF is_generic_ty(ty, "Vec") THEN Some(vec_ty) ELSE None

\* The get_vec_ty the build with the given feature setting compiles in
get_vec_ty(feature, ty, vec_ty, vecvec_ty) ==
    IF feature
    THEN get_vec_ty_unstable_v5(ty, vec_ty, vecvec_ty)
    ELSE get_vec_ty_not_unstable_v5(ty, vec_ty, vecvec_ty)

\* Mutant of from_syn_ty: the Option<Option<T>> test is missing
from_syn_ty_no_option_option(feature, ty) ==
    IF is_unit_ty(ty) THEN "Unit"
    ELSE LET vt == get_vec_ty(feature, ty, "Vec", "VecVec")
         IN  IF is_some(vt) THEN vt[1]
             ELSE LET subty == subty_if_name(ty, "Option")
                  IN  IF is_some(subty)
                      THEN LET ovt == get_vec_ty(feature, subty[1],
                                                 "OptionVec", "OptionVecVec")
                           IN  IF is_some(ovt) THEN ovt[1] ELSE "Option"
                      ELSE "Other"

from_syn_ty(feature, ty) ==
    IF is_unit_ty(ty) THEN "Unit"
    ELSE LET vt == get_vec_ty(feature, ty, "Vec", "VecVec")
         IN  IF is_some(vt) THEN vt[1]
             ELSE LET subty == subty_if_name(ty, "Option")
                  IN  IF is_some(subty)
                      THEN IF is_generic_ty(subty[1], "Option") THEN "OptionOption"
                           ELSE LET ovt == get_vec_ty(feature, subty[1],
                                                      "OptionVec", "OptionVecVec")
                                IN  IF is_some(ovt) THEN ovt[1] ELSE "Option"
                      ELSE "Other"

\* Mutant of inner_type: the two-layer shapes are unwrapped three times
inner_type_thrice(feature, field) ==
    LET ty == from_syn_ty(feature, field)
    IN  IF ty \in {"Vec", "Option"}
        THEN unwrap_or(sub_type(field), field)
        ELSE IF ty \in {"OptionOption", "OptionVec", "VecVec", "OptionVecVec"}
        THEN unwrap_or(and_then_sub_type(and_then_sub_type(sub_type(field))),
                       field)
        ELSE field

inner_type(feature, field) ==
    LET ty == from_syn_ty(feature, field)
    IN  IF ty \in {"Vec", "Option"}
        THEN unwrap_or(sub_type(field), field)
        ELSE IF ty \in {"OptionOption", "OptionVec", "VecVec"}
        THEN unwrap_or(and_then_sub_type(sub_type(field)), field)
        ELSE IF ty = "OptionVecVec"
        THEN unwrap_or(and_then_sub_type(and_then_sub_type(sub_type(field))),
                       field)
        ELSE field

----------------------------------------------------------------------------
\* The type expressions the functions are applied to

Idents == {"Vec", "Option", "Foo"}

PathBuf == Bare("PathBuf")

ArgSegment(ident) ==
    PathSegment(ident, "AngleBracketed",
                <<GenericArgumentType(Generic("Vec", PathBuf))>>)

\* Paths named ident that are not `ident<T>` with one type argument
Degenerate(ident) ==
    { Bare(ident),
      \* ident<>
      TypePath(FALSE, FALSE, <<PathSegment(ident, "AngleBracketed", << >>)>>),
      \* ident<'a>
      TypePath(FALSE, FALSE,
               <<PathSegment(ident, "AngleBracketed", <<GenericArgumentLifetime>>)>>),
      \* ident<N>
      TypePath(FALSE, FALSE,
               <<PathSegment(ident, "AngleBracketed", <<GenericArgumentConst>>)>>),
      \* ident<PathBuf, Vec<PathBuf>>
      TypePath(FALSE, FALSE,
               <<PathSegment(ident, "AngleBracketed",
                             <<GenericArgumentType(PathBuf),
                               GenericArgumentType(Generic("Vec", PathBuf))>>)>>),
      \* ident<'a, PathBuf>
      TypePath(FALSE, FALSE,
               <<PathSegment(ident, "AngleBracketed",
                             <<GenericArgumentLifetime,
                               GenericArgumentType(PathBuf)>>)>>),
      \* ident(PathBuf)
      TypePath(FALSE, FALSE,
               <<PathSegment(ident, "Parenthesized",
                             <<GenericArgumentType(PathBuf)>>)>>),
      \* std::ident<Vec<PathBuf>>
      TypePath(FALSE, FALSE,
               <<PathSegment("std", "None", << >>), ArgSegment(ident)>>),
      \* ::ident<Vec<PathBuf>>
      TypePath(FALSE, TRUE, <<ArgSegment(ident)>>),
      \* <T>::ident<Vec<PathBuf>>
      TypePath(TRUE, FALSE, <<ArgSegment(ident)>>) }

Leaves ==
    { TypeTuple(<< >>), TypeTuple(<<PathBuf>>), PathBuf, Bare("Unit"),
      TypeParen(Generic("Vec", PathBuf)) }
    \cup UNION { Degenerate(ident) : ident \in Idents }

RECURSIVE Types(_)
Types(d) ==
    IF d = 0 THEN Leaves
    ELSE LET S == Types(d - 1)
         IN  S \cup { TypeGroup(t) : t \in S }
               \cup { Generic(ident, t) : ident \in Idents, t \in S }

----------------------------------------------------------------------------
\* One call of one of the functions on field_ty, in the build given by
\* unstable_v5; only_last_segment is run one loop iteration at a time.

Init ==
    /\ unstable_v5 \in BOOLEAN
    /\ field_ty \in Types(MaxDepth)
    /\ name = ""
    /\ pc = "ready"
    /\ op = "none"
    /\ cur = field_ty
    /\ steps = 0
    /\ shape = ""
    /\ out = None
    /\ flag = FALSE

Call_from_syn_ty ==
    /\ pc = "ready"
    /\ shape' = from_syn_ty(unstable_v5, field_ty)
    /\ op' = "from_syn_ty"
    /\ pc' = "done"
    /\ UNCHANGED <<unstable_v5, field_ty, name, cur, steps, out, flag>>

Call_inner_type ==
    /\ pc = "ready"
    /\ shape' = from_syn_ty(unstable_v5, field_ty)
    /\ out' = Some(inner_type(unstable_v5, field_ty))
    /\ op' = "inner_type"
    /\ pc' = "done"
    /\ UNCHANGED <<unstable_v5, field_ty, name, cur, steps, flag>>

Call_sub_type ==
    /\ pc = "ready"
    /\ out' = sub_type(field_ty)
    /\ op' = "sub_type"
    /\ pc' = "done"
    /\ UNCHANGED <<unstable_v5, field_ty, name, cur, steps, shape, flag>>

Call_subty_if_name ==
    /\ pc = "ready"
    /\ \E n \in Idents :
          /\ name' = n
          /\ out' = subty_if_name(field_ty, n)
    /\ op' = "subty_if_name"
    /\ pc' = "done"
    /\ UNCHANGED <<unstable_v5, field_ty, cur, steps, shape, flag>>

Call_is_simple_ty ==
    /\ pc = "ready"
    /\ \E n \in Idents :
          /\ name' = n
          /\ flag' = is_simple_ty(field_ty, n)
    /\ op' = "is_simple_ty"
    /\ pc' = "done"
    /\ UNCHANGED <<unstable_v5, field_ty, cur, steps, shape, out>>

Enter_only_last_segment ==
    /\ pc = "ready"
    /\ op' = "only_last_segment"
    /\ pc' = "loop"
    /\ cur' = field_ty
    /\ steps' = 0
    /\ UNCHANGED <<unstable_v5, field_ty, name, shape, out, flag>>

Loop_only_last_segment ==
    /\ pc = "loop"
    /\ cur.kind = "Group"
    /\ cur' = strip_group(cur)
    /\ steps' = steps + 1
    /\ UNCHANGED <<unstable_v5, field_ty, name, pc, op, shape, out, flag>>

Match_only_last_segment ==
    /\ pc = "loop"
    /\ cur.kind # "Group"
    /\ out' = match_path(cur)
    /\ pc' = "done"
    /\ UNCHANGED <<unstable_v5, field_ty, name, op, cur, steps, shape, flag>>

Next ==
    \/ Call_from_syn_ty
    \/ Call_inner_type
    \/ Call_sub_type
    \/ Call_subty_if_name
    \/ Call_is_simple_ty
    \/ Enter_only_last_segment
    \/ Loop_only_last_segment
    \/ Match_only_last_segment

Spec == Init /\ [][Next]_vars

----------------------------------------------------------------------------
\* Vocabulary of the properties, stated on the syntax tree alone

Done(o) == pc = "done" /\ op = o

RECURSIVE Ungrouped(_)
Ungrouped(t) == IF t.kind = "Group" THEN Ungrouped(t.elems[1]) ELSE t

RECURSIVE GroupDepth(_)
GroupDepth(t) == IF t.kind = "Group" THEN 1 + GroupDepth(t.elems[1]) ELSE 0

\* t, below its grouping nodes, is an unqualified path without leading `::`
\* and with exactly one segment
SingleSegment(t) ==
    LET u == Ungrouped(t)
    IN  /\ u.kind = "Path"
        /\ ~u.qself
        /\ ~u.leading_colon
        /\ Len(u.segments) = 1

\* ... whose segment carries <a> with a a type
OneTypeArg(t) ==
    /\ SingleSegment(t)
    /\ LET seg == Ungrouped(t).segments[1]
       IN  /\ seg.arguments = "AngleBracketed"
           /\ Len(seg.args) = 1
           /\ seg.args[1].kind = "Type"

\* ... and is named ident
Wrapper(t, ident) ==
    /\ OneTypeArg(t)
    /\ Ungrouped(t).segments[1].ident = ident

Arg(t) == Ungrouped(t).segments[1].args[1].ty[1]

NotWrapper(t) == ~Wrapper(t, "Vec") /\ ~Wrapper(t, "Option")

IsEmptyTuple(t) == t.kind = "Tuple" /\ Len(t.elems) = 0

\* The type arguments of a path segment
SegmentTypes(seg) ==
    UNION { { seg.args[j].ty[k] : k \in 1..Len(seg.args[j].ty) } :
            j \in 1..Len(seg.args) }

\* The types found anywhere below t, t excluded
RECURSIVE Below(_)
Below(t) ==
    LET kids ==
            { t.elems[i] : i \in 1..Len(t.elems) }
            \cup UNION { SegmentTypes(t.segments[i]) : i \in 1..Len(t.segments) }
    IN  kids \cup UNION { Below(k) : k \in kids }

----------------------------------------------------------------------------
\* The shapes a doubly repeated wrapper has

VecOfVec(t) == Wrapper(t, "Vec") /\ Wrapper(Arg(t), "Vec")

OptionOfVecOfVec(t) == Wrapper(t, "Option") /\ VecOfVec(Arg(t))

Classified == Done("from_syn_ty") \/ Done("inner_type")

C3_FirstMatchWins ==
    Done("from_syn_ty") =>
        /\ (Wrapper(field_ty, "Vec") /\ NotWrapper(Arg(field_ty)))
              => shape = "Vec"
        /\ (Wrapper(field_ty, "Option") /\ NotWrapper(Arg(field_ty)))
              => shape = "Option"
        /\ (/\ Wrapper(field_ty, "Option")
            /\ Wrapper(Arg(field_ty), "Vec")
            /\ NotWrapper(Arg(Arg(field_ty))))
              => shape = "OptionVec"
        /\ (Wrapper(field_ty, "Option") /\ Wrapper(Arg(field_ty), "Option"))
              => shape = "OptionOption"
        /\ (~IsEmptyTuple(field_ty) /\ NotWrapper(field_ty))
              => shape = "Other"

C3_Witness ==
    /\ Done("from_syn_ty")
    /\ Wrapper(field_ty, "Option")
    /\ Wrapper(Arg(field_ty), "Option")
    /\ Wrapper(Arg(Arg(field_ty)), "Vec")
    /\ shape = "OptionOption"

\* C4: inner_type removes one layer for Vec and Option, two for OptionOption,
\* OptionVec and VecVec, three for OptionVecVec, each layer being there to
\* remove, and returns the type itself for Unit and Other and only for them.
C4_FallbackNeverTaken ==
    Done("inner_type") =>
        /\ shape \in {"Vec", "Option"} =>
              /\ OneTypeArg(field_ty)
              /\ out = Some(Arg(field_ty))
        /\ shape \in {"OptionOption", "OptionVec", "VecVec"} =>
              /\ OneTypeArg(field_ty)
              /\ OneTypeArg(Arg(field_ty))
              /\ out = Some(Arg(Arg(field_ty)))
        /\ shape = "OptionVecVec" =>
              /\ OneTypeArg(field_ty)
              /\ OneTypeArg(Arg(field_ty))
              /\ OneTypeArg(Arg(Arg(field_ty)))
              /\ out = Some(Arg(Arg(Arg(field_ty))))
        /\ shape \in {"Unit", "Other"} => out = Some(field_ty)
        /\ shape \notin {"Unit", "Other"} => out # Some(field_ty)

C4_Witness ==
    /\ Done("inner_type")
    /\ shape = "OptionVec"
    /\ field_ty.kind = "Group"
    /\ out = Some(Arg(Arg(field_ty)))

\* C5: subty_if_name(t, name) is Some(a) exactly when t, below its grouping
\* nodes, is an unqualified one-segment path without leading `::` named name
\* with the single angle-bracketed argument a, a type; so a path whose last
\* segment is Vec or Option and that is not of this form is Other.
C5_StrictWrapperTest ==
    /\ Done("subty_if_name") =>
          out = IF Wrapper(field_ty, name) THEN Some(Arg(field_ty)) ELSE None
    /\ (/\ Done("from_syn_ty")
        /\ field_ty.kind = "Path"
        /\ field_ty.segments[Len(field_ty.segments)].ident \in {"Vec", "Option"}
        /\ ~OneTypeArg(field_ty))
          => shape = "Other"

C5_Witness ==
    /\ Done("subty_if_name")
    /\ field_ty.kind = "Path"
    /\ Len(field_ty.segments) = 1
    /\ field_ty.segments[1].ident = name
    /\ Len(field_ty.segments[1].args) = 2
    /\ out = None

\* C6: a type inside a Type::Group classifies as the type itself does,
\* whatever the type is, the empty tuple included.
C6_GroupTransparent ==
    (Done("from_syn_ty") /\ field_ty.kind = "Group")
        => shape = from_syn_ty(unstable_v5, field_ty.elems[1])

\* C7: from_syn_ty is Unit for the empty tuple and for nothing else, and
\* inner_type returns the empty tuple unchanged.
C7_UnitOnlyEmptyTuple ==
    /\ Classified => (shape = "Unit" <=> IsEmptyTuple(field_ty))
    /\ (Done("inner_type") /\ IsEmptyTuple(field_ty)) => out = Some(field_ty)

C7_Witness ==
    /\ Done("from_syn_ty")
    /\ field_ty.kind = "Tuple"
    /\ Len(field_ty.elems) = 1
    /\ shape = "Other"

C9_Total ==
    /\ pc = "loop" => ENABLED (Loop_only_last_segment \/ Match_only_last_segment)
    /\ Classified => shape \in Ty
    /\ Done("inner_type") =>
          /\ is_some(out)
          /\ out[1] \in Below(field_ty) \cup {field_ty}
    /\ op = "only_last_segment" =>
          /\ steps + GroupDepth(cur) = GroupDepth(field_ty)
          /\ pc = "done" => cur.kind # "Group"

C9_Witness ==
    /\ Done("only_last_segment")
    /\ steps = MaxDepth
    /\ cur.kind = "Tuple"

\* C10: sub_type(t) is Some(a) exactly when t, below its grouping nodes, is an
\* unqualified one-segment path without leading `::` with the single
\* angle-bracketed argument a, a type, whatever the segment is named; what
\* subty_if_name finds sub_type finds too, and a lies inside t.
C10_SubTypeAnyName ==
    /\ Done("sub_type") =>
          /\ out = IF OneTypeArg(field_ty) THEN Some(Arg(field_ty)) ELSE None
          /\ is_some(out) => out[1] \in Below(field_ty)
    /\ (Done("subty_if_name") /\ is_some(out)) => sub_type(field_ty) = out

C10_Witness ==
    /\ Done("sub_type")
    /\ Wrapper(field_ty, "Foo")
    /\ out = Some(Arg(field_ty))

====
